---- MODULE Spec2Model ----
(***************************************************************************)
(* The request scheduler of util/request-scheduler (src/unnamed/part_000): *)
(* a pool of REQUEST_CONCURRENCY_LIMIT slots, the rate-limit estimator     *)
(* timeToNextRequest and the async function schedule behind the four verb  *)
(* wrappers get/put/post/delete.                                           *)
(*                                                                         *)
(* JavaScript runs the code between two awaits without interruption, so    *)
(* every action below is one such run: the verb wrapper up to the await of *)
(* pool.acquire(), the resumption that calls the transport, the settling   *)
(* of the transport promise, the try or catch continuation, and the timer  *)
(* callback resource.release.                                              *)
(***************************************************************************)
EXTENDS Integers, Sequences, FiniteSets, TLC

(***************************************************************************)
(* Bounds of the model.                                                    *)
(***************************************************************************)
\* number of verb invocations issued by the callers
MaxCalls == 3
\* besides the shipped pool size, pools of 1..SmallLimit slots are explored
SmallLimit == 2
\* the resolution of the clock, in milliseconds
TickMs == 1500
\* how often release() is called on one handle of the pool
MaxReleases == 2
\* the longest collection a listing of bin/reset returns
MaxItems == 2
\* the longest collection handed to each() on its own
MaxEachItems == 3
\* the largest config.concurrencyLimit
MaxConcurrency == 2

\* const REQUEST_CONCURRENCY_LIMIT = 100
REQUEST_CONCURRENCY_LIMIT == 100
\* the "extra 10 for buffer" of timeToNextRequest
RATE_LIMIT_BUFFER == 10
\* the "extra buffer of 1000ms" of timeToNextRequest
RESET_BUFFER_MS == 1000
\* seconds to milliseconds, headers['x-rate-limit-reset'] * 1000
MS_PER_SECOND == 1000

Calls == 1..MaxCalls
\* the values of REQUEST_CONCURRENCY_LIMIT the model is run with
Limits == (1..SmallLimit) \cup {REQUEST_CONCURRENCY_LIMIT}

(***************************************************************************)
(* JavaScript values.  A number is a record that is either NaN or carries  *)
(* an integer; a string header value is a sequence of one-character        *)
(* strings; undefined is a value that is no such string.                   *)
(***************************************************************************)
NaN == [nan |-> TRUE, v |-> 0]
Num(n) == [nan |-> FALSE, v |-> n]
Undefined == <<"undefined">>
None == [none |-> TRUE]

\* a * b, a - b, a + b and a > b on JavaScript numbers (NaN is contagious,
\* and every comparison with NaN is false)
JsMul(a, b) == IF a.nan \/ b.nan THEN NaN ELSE Num(a.v * b.v)
JsSub(a, b) == IF a.nan \/ b.nan THEN NaN ELSE Num(a.v - b.v)
JsAdd(a, b) == IF a.nan \/ b.nan THEN NaN ELSE Num(a.v + b.v)
JsGt(a, b) == ~a.nan /\ ~b.nan /\ a.v > b.v

Digits == {"0", "1", "2", "3", "4", "5", "6", "7", "8", "9"}
DigitVal(ch) ==
  CASE ch = "0" -> 0 [] ch = "1" -> 1 [] ch = "2" -> 2 [] ch = "3" -> 3
    [] ch = "4" -> 4 [] ch = "5" -> 5 [] ch = "6" -> 6 [] ch = "7" -> 7
    [] ch = "8" -> 8 [] ch = "9" -> 9

IsDigits(s) == \A i \in 1..Len(s) : s[i] \in Digits

RECURSIVE DecValue(_)
DecValue(s) ==
  IF s = <<>> THEN 0
  ELSE 10 * DecValue(SubSeq(s, 1, Len(s) - 1)) + DigitVal(s[Len(s)])

\* ToNumber of a header value: undefined is NaN, the empty string is 0, a
\* string of decimal digits is its value, any other string is NaN
ToNumber(val) ==
  IF val = Undefined THEN NaN
  ELSE IF IsDigits(val) THEN Num(DecValue(val))
  ELSE NaN

\* Date.parse of a header value, for the ISO form 1970-01-01THH:MM:SSZ
\* (milliseconds since the epoch); undefined and any other string are NaN
IsoDay == <<"1", "9", "7", "0", "-", "0", "1", "-", "0", "1", "T">>
DateParse(val) ==
  IF val = Undefined THEN NaN
  ELSE IF /\ Len(val) = 20
          /\ SubSeq(val, 1, 11) = IsoDay
          /\ IsDigits(SubSeq(val, 12, 13)) /\ val[14] = ":"
          /\ IsDigits(SubSeq(val, 15, 16)) /\ val[17] = ":"
          /\ IsDigits(SubSeq(val, 18, 19)) /\ val[20] = "Z"
          /\ DecValue(SubSeq(val, 12, 13)) < 24
          /\ DecValue(SubSeq(val, 15, 16)) < 60
          /\ DecValue(SubSeq(val, 18, 19)) < 60
       THEN Num(((DecValue(SubSeq(val, 12, 13)) * 60
                  + DecValue(SubSeq(val, 15, 16))) * 60
                 + DecValue(SubSeq(val, 18, 19))) * 1000)
       ELSE NaN

\* obj[key] of a JavaScript object: undefined when the key is absent
Prop(obj, key) == IF key \in DOMAIN obj THEN obj[key] ELSE Undefined

\* completion of a function call: it returns a value or throws one
Return(val) == [type |-> "return", value |-> val]
Throw(val) == [type |-> "throw", value |-> val]
\* the TypeError of reading a property of undefined
TypeError == [name |-> "TypeError"]

VARIABLES
  limit,      \* the value of REQUEST_CONCURRENCY_LIMIT, the size of the pool
  requestId,  \* scheduler.requestId
  pool,       \* scheduler.pool: the handles held and the queue of waiters
  pc,         \* where each call of schedule stands
  id,         \* the const requestId of each call
  outcome,    \* how the transport promise of each call settled
  result,     \* what schedule returned or threw to its caller
  timer,      \* the delay handed to setTimeout(resource.release, ...)
  releases,   \* how often resource.release of each call has run
  order,      \* the calls in the order of their invocation
  acquires,   \* how often each call has called scheduler.pool.acquire()
  fnCalls,    \* how often each call has called the transport, fn()
  elapsed,    \* the time since the release timer of each call was armed
  est_res,    \* the argument of a single call of timeToNextRequest
  est_out,    \* and its completion
  concurrency,\* config.concurrencyLimit, the size of the pool of bin/reset
  pageLimit,  \* the most users one listing returns
  job,        \* where reset() stands: the function it is in and the step
  items,      \* the collection handed to pool.each
  task,       \* where the operation on each item stands
  attempts,   \* how often the operation was invoked on each item
  outer,      \* the pool of bin/reset whose each() runs the operations
  rq,         \* the verb call in flight of reset() and of each operation
  cooling,    \* the handles of scheduler.pool with an armed release timer
  hist        \* the requests made for each item and how they ended

vars == <<limit, requestId, pool, pc, id, outcome, result, timer, releases,
          order, acquires, fnCalls, elapsed, est_res, est_out, concurrency,
          pageLimit, job, items, task, attempts, outer, rq, cooling, hist>>

\* the state of the calls of schedule that callers other than bin/reset make
callVars == <<requestId, pc, id, outcome, result, timer, releases, order,
              acquires, fnCalls, elapsed>>
estVars == <<est_res, est_out>>
\* the state of bin/reset
jobVars == <<concurrency, pageLimit, job, items, task, attempts, outer, rq,
             cooling, hist>>


(***************************************************************************)
(* The concurrency pool (util/concurrency-pool): a counting semaphore over *)
(* n slots with a first-come-first-served queue of waiters.  acquire()     *)
(* marks a slot held for the caller when one is free and queues the caller *)
(* otherwise; release() of a handle returns its slot and hands it to the   *)
(* first waiter, if any.                                                   *)
(***************************************************************************)
NewPool == [held |-> {}, waiters |-> <<>>]

PoolAcquire(p, h, n) ==
  IF Cardinality(p.held) < n
  THEN [p EXCEPT !.held = @ \cup {h}]
  ELSE [p EXCEPT !.waiters = Append(@, h)]

\* a release that does not look whether the handle still holds a slot
PoolRelease_Unchecked(p, h) ==
  IF p.waiters = <<>> THEN [p EXCEPT !.held = @ \ {h}]
  ELSE [held |-> (p.held \ {h}) \cup {Head(p.waiters)},
        waiters |-> Tail(p.waiters)]

PoolRelease(p, h) ==
  IF h \notin p.held THEN p
  ELSE IF p.waiters = <<>> THEN [p EXCEPT !.held = @ \ {h}]
  ELSE [held |-> (p.held \ {h}) \cup {Head(p.waiters)},
        waiters |-> Tail(p.waiters)]

(***************************************************************************)
(* What the upstream service and the transport can hand to the scheduler.  *)
(* With resolveWithFullResponse a resolved transport promise carries a     *)
(* response with a headers object and a body; with simple: true a rejected *)
(* one carries a StatusCodeError that embeds the response, or a            *)
(* RequestError (connection reset, ...) that embeds none.                  *)
(***************************************************************************)
DigitChar(d) ==
  CASE d = 0 -> "0" [] d = 1 -> "1" [] d = 2 -> "2" [] d = 3 -> "3"
    [] d = 4 -> "4" [] d = 5 -> "5" [] d = 6 -> "6" [] d = 7 -> "7"
    [] d = 8 -> "8" [] d = 9 -> "9"

\* the decimal numeral of n, as the service writes an integer header
RECURSIVE Dec(_)
Dec(n) ==
  IF n < 10 THEN <<DigitChar(n)>>
  ELSE Dec(n \div 10) \o <<DigitChar(n % 10)>>

TwoDigits(n) == <<DigitChar(n \div 10), DigitChar(n % 10)>>

\* the date header of the instant hh:mm:ss of 1970-01-01
IsoDate(hh, mm, ss) ==
  IsoDay \o TwoDigits(hh) \o <<":">> \o TwoDigits(mm) \o <<":">>
         \o TwoDigits(ss) \o <<"Z">>

DATE == "date"
REMAINING == "x-rate-limit-remaining"
RESET == "x-rate-limit-reset"

\* a headers object: an absent header is given as Undefined
Headers(date, remaining, reset) ==
  LET all == (DATE :> date) @@ (REMAINING :> remaining) @@ (RESET :> reset)
      present == {k \in DOMAIN all : all[k] # Undefined}
  IN [k \in present |-> all[k]]

Response(headers, body) == [headers |-> headers, body |-> body]
StatusCodeError(response) == [name |-> "StatusCodeError", response |-> response]
RequestError == [name |-> "RequestError"]

\* plenty of requests left in the window, whatever the pool size
AmpleHeaders ==
  Headers(IsoDate(0, 0, 10),
          Dec(REQUEST_CONCURRENCY_LIMIT + RATE_LIMIT_BUFFER + 1), Dec(12))
\* few requests left, the window resets two seconds after the server's date
LowHeaders == Headers(IsoDate(0, 0, 10), Dec(5), Dec(12))
\* few requests left, the window reset five seconds before the server's date
StaleHeaders == Headers(IsoDate(0, 0, 10), Dec(5), Dec(5))
\* none of the three throttling headers
NoHeaders == Headers(Undefined, Undefined, Undefined)

Responses ==
  { Response(AmpleHeaders, "body1"), Response(LowHeaders, "body2"),
    Response(StaleHeaders, "body1"), Response(NoHeaders, "body2") }
Errors ==
  { StatusCodeError(Response(LowHeaders, "tooManyRequests")),
    StatusCodeError(Response(AmpleHeaders, "notFound")),
    RequestError }


(***************************************************************************)
(* timeToNextRequest(res), part_000 lines 24-45.                           *)
(***************************************************************************)
HeadersOf_ErrorOnly(res) ==
  IF "response" \in DOMAIN res THEN Return(res.response.headers)
  ELSE Throw(TypeError)

\* const headers = res.headers || res.response.headers: the headers of a
\* response, else those of the response an error embeds; reading .headers
\* of an undefined res.response throws a TypeError
HeadersOf(res) ==
  IF "headers" \in DOMAIN res THEN Return(res.headers)
  ELSE IF "response" \in DOMAIN res THEN Return(res.response.headers)
  ELSE Throw(TypeError)

AmpleHeadroom_OffByOne(remaining) ==
  JsGt(remaining, Num(limit + RATE_LIMIT_BUFFER + 1))

\* remaining > REQUEST_CONCURRENCY_LIMIT + 10
AmpleHeadroom(remaining) ==
  JsGt(remaining, Num(limit + RATE_LIMIT_BUFFER))

ResetDelay_NoBuffer(headers) ==
  JsSub(JsMul(ToNumber(Prop(headers, RESET)), Num(MS_PER_SECOND)),
        DateParse(Prop(headers, DATE)))

\* serverResetUtcMs - serverTimeUtcMs + 1000
ResetDelay(headers) ==
  LET serverTimeUtcMs == DateParse(Prop(headers, DATE))
      serverResetUtcMs ==
        JsMul(ToNumber(Prop(headers, RESET)), Num(MS_PER_SECOND))
  IN JsAdd(JsSub(serverResetUtcMs, serverTimeUtcMs), Num(RESET_BUFFER_MS))

timeToNextRequest(res) ==
  LET h == HeadersOf(res) IN
  IF h.type = "throw" THEN h
  ELSE LET headers == h.value
           remaining == ToNumber(Prop(headers, REMAINING))
       IN IF AmpleHeadroom(remaining) THEN Return(Num(0))
          ELSE Return(ResetDelay(headers))

(***************************************************************************)
(* schedule(scheduler, msg, fn), part_000 lines 54-69, and the scheduler.  *)
(***************************************************************************)
\* reset() and the operations it runs: owner 0 is reset() itself, owner i the
\* operation on the i-th item of the collection
Owners == 0..MaxItems
NoRequest == [pc |-> "none", h |-> 0]

\* bin/reset has not been started
NoJob ==
  /\ concurrency = 1
  /\ pageLimit = MaxItems
  /\ job = [fn |-> "none", at |-> "idle"]
  /\ items = <<>>
  /\ task = <<>>
  /\ attempts = <<>>
  /\ outer = NewPool
  /\ rq = [o \in Owners |-> NoRequest]
  /\ cooling = {}
  /\ hist = <<>>

Init ==
  /\ limit \in Limits
  /\ requestId = 0
  /\ pool = NewPool
  /\ pc = [c \in Calls |-> "idle"]
  /\ id = [c \in Calls |-> -1]
  /\ outcome = [c \in Calls |-> None]
  /\ result = [c \in Calls |-> None]
  /\ timer = [c \in Calls |-> None]
  /\ releases = [c \in Calls |-> 0]
  /\ order = <<>>
  /\ acquires = [c \in Calls |-> 0]
  /\ fnCalls = [c \in Calls |-> 0]
  /\ elapsed = [c \in Calls |-> 0]
  /\ est_res = None
  /\ est_out = None
  /\ NoJob

NextRequestId_Stuck(r) == r

\* scheduler.requestId++
NextRequestId(r) == r + 1

\* const requestId = scheduler.requestId++; ... await scheduler.pool.acquire()
\* The callers are numbered in the order in which they invoke a verb.
schedule(c) ==
  /\ pc[c] = "idle"
  /\ c = Len(order) + 1
  /\ id' = [id EXCEPT ![c] = requestId]
  /\ requestId' = NextRequestId(requestId)
  /\ pool' = PoolAcquire(pool, c, limit)
  /\ pc' = [pc EXCEPT ![c] = "waiting"]
  /\ order' = Append(order, c)
  /\ acquires' = [acquires EXCEPT ![c] = @ + 1]
  /\ UNCHANGED <<limit, outcome, result, timer, releases, fnCalls, elapsed,
                 est_res, est_out, jobVars>>

\* the four verb wrappers differ in the transport method fn() calls
get(c) == schedule(c)
put(c) == schedule(c)
post(c) == schedule(c)
delete(c) == schedule(c)

Acquired_NoAwait(c) == TRUE

\* the promise of pool.acquire() has resolved with the resource of call c
Acquired(c) == c \in pool.held

\* const resource = await scheduler.pool.acquire(); ... fn()
Execute(c) ==
  /\ pc[c] = "waiting"
  /\ Acquired(c)
  /\ pc' = [pc EXCEPT ![c] = "executing"]
  /\ fnCalls' = [fnCalls EXCEPT ![c] = @ + 1]
  /\ UNCHANGED <<limit, requestId, pool, id, outcome, result, timer,
                 releases, order, acquires, elapsed, est_res, est_out, jobVars>>

\* the promise of fn() resolves with a response
TransportResolve(c) ==
  /\ pc[c] = "executing"
  /\ \E res \in Responses :
       outcome' = [outcome EXCEPT ![c] = Return(res)]
  /\ pc' = [pc EXCEPT ![c] = "succeeded"]
  /\ UNCHANGED <<limit, requestId, pool, id, result, timer, releases, order, acquires, fnCalls, elapsed,
                 est_res, est_out, jobVars>>

\* the promise of fn() rejects with an error
TransportReject(c) ==
  /\ pc[c] = "executing"
  /\ \E err \in Errors :
       outcome' = [outcome EXCEPT ![c] = Throw(err)]
  /\ pc' = [pc EXCEPT ![c] = "failed"]
  /\ UNCHANGED <<limit, requestId, pool, id, result, timer, releases, order, acquires, fnCalls, elapsed,
                 est_res, est_out, jobVars>>

\* the result is held back until the slot is released
Catch_AwaitRelease(c, err) ==
  LET time == timeToNextRequest(err) IN
  IF time.type = "throw"
  THEN /\ result' = [result EXCEPT ![c] = time]
       /\ pc' = [pc EXCEPT ![c] = "leaked"]
       /\ UNCHANGED timer
  ELSE /\ timer' = [timer EXCEPT ![c] = time.value]
       /\ result' = result
       /\ pc' = [pc EXCEPT ![c] = "scheduled"]

\* the failed call is tried again on the slot it holds
Catch_Retry(c, err) ==
  /\ timer' = timer
  /\ result' = result
  /\ pc' = [pc EXCEPT ![c] = "waiting"]

\* catch (err) { setTimeout(resource.release, timeToNextRequest(err));
\* throw err; }: when timeToNextRequest throws, no timer is armed and its
\* error leaves schedule in place of err
Catch(c, err) ==
  LET time == timeToNextRequest(err) IN
  IF time.type = "throw"
  THEN /\ result' = [result EXCEPT ![c] = time]
       /\ pc' = [pc EXCEPT ![c] = "leaked"]
       /\ UNCHANGED timer
  ELSE /\ timer' = [timer EXCEPT ![c] = time.value]
       /\ result' = [result EXCEPT ![c] = Throw(err)]
       /\ pc' = [pc EXCEPT ![c] = "scheduled"]

\* res.body
Body(res) == res.body

\* try { ... setTimeout(resource.release, timeToNextRequest(res));
\* return res.body; }: an error thrown by timeToNextRequest is caught by
\* the catch clause of the same try
Succeeded(c) ==
  /\ pc[c] = "succeeded"
  /\ LET res == outcome[c].value
         time == timeToNextRequest(res)
     IN IF time.type = "throw"
        THEN Catch(c, time.value)
        ELSE /\ timer' = [timer EXCEPT ![c] = time.value]
             /\ result' = [result EXCEPT ![c] = Return(Body(res))]
             /\ pc' = [pc EXCEPT ![c] = "scheduled"]
  /\ UNCHANGED <<limit, requestId, pool, id, outcome, releases, order, acquires, fnCalls, elapsed,
                 est_res, est_out, jobVars>>

\* the rejection of fn() enters the catch clause
Failed(c) ==
  /\ pc[c] = "failed"
  /\ Catch(c, outcome[c].value)
  /\ UNCHANGED <<limit, requestId, pool, id, outcome, releases, order, acquires, fnCalls, elapsed,
                 est_res, est_out, jobVars>>

TimerDue_AtOnce(c) == TRUE

\* setTimeout(callback, delay) runs the callback once delay milliseconds
\* have passed; a delay that is NaN or below 1 is taken as 1 ms, which is
\* below the resolution of the clock of the model
TimerDue(c) == timer[c].nan \/ elapsed[c] >= timer[c].v

\* time passes: every armed timer that is not yet due gets TickMs older
Tick ==
  /\ \E c \in Calls : pc[c] = "scheduled" /\ ~TimerDue(c)
  /\ elapsed' =
       [c \in Calls |->
          IF pc[c] = "scheduled" /\ ~TimerDue(c)
          THEN IF elapsed[c] + TickMs >= timer[c].v THEN timer[c].v
               ELSE elapsed[c] + TickMs
          ELSE elapsed[c]]
  /\ UNCHANGED <<limit, requestId, pool, pc, id, outcome, result, timer,
                 releases, order, acquires, fnCalls, est_res, est_out, jobVars>>

\* the timer fires and runs resource.release
Release(c) ==
  /\ pc[c] = "scheduled"
  /\ TimerDue(c)
  /\ pool' = PoolRelease(pool, c)
  /\ releases' = [releases EXCEPT ![c] = @ + 1]
  /\ pc' = [pc EXCEPT ![c] = "released"]
  /\ UNCHANGED <<limit, requestId, id, outcome, result, timer, order, acquires, fnCalls, elapsed,
                 est_res, est_out, jobVars>>

Next ==
  \/ Tick
  \/ \E c \in Calls :
    \/ get(c) \/ put(c) \/ post(c) \/ delete(c)
    \/ Execute(c)
    \/ TransportResolve(c)
    \/ TransportReject(c)
    \/ Succeeded(c)
    \/ Failed(c)
    \/ Release(c)

Spec == Init /\ [][Next]_vars


\* the event loop runs every continuation that is ready and every timer
\* that was armed; whether callers invoke verbs and whether the transport
\* settles is left open
FairSpec ==
  /\ Spec
  /\ \A c \in Calls :
       /\ WF_vars(Execute(c))
       /\ WF_vars(Succeeded(c))
       /\ WF_vars(Failed(c))
       /\ WF_vars(Release(c))
  /\ WF_vars(Tick)

\* in addition every caller invokes its verb and every transport call
\* settles
LiveSpec ==
  /\ FairSpec
  /\ \A c \in Calls :
       /\ WF_vars(schedule(c))
       /\ WF_vars(TransportResolve(c) \/ TransportReject(c))

(***************************************************************************)
(* timeToNextRequest on its own: one call of it on any response or error.  *)
(***************************************************************************)
\* instants of 1970-01-01 a date header names: 00:00:10 and 00:01:00
EstInstants == {<<0, 0, 10>>, <<0, 1, 0>>}
\* requests-remaining counts: scarce ones and both sides of the threshold
EstRemaining ==
  {5, 11} \cup {l + RATE_LIMIT_BUFFER : l \in Limits}
          \cup {l + RATE_LIMIT_BUFFER + 1 : l \in Limits}
\* window-reset epoch seconds: before, shortly after and well after the dates
EstReset == {5, 12, 62}
\* a header that is absent, or is no number and no date
Absent == {Undefined, <<"x">>}

EstDateValues == Absent \cup {IsoDate(t[1], t[2], t[3]) : t \in EstInstants}
EstRemainingValues == Absent \cup {<<>>} \cup {Dec(n) : n \in EstRemaining}
EstResetValues == Absent \cup {Dec(n) : n \in EstReset}

EstHeaders ==
  {Headers(d, r, s) :
     d \in EstDateValues, r \in EstRemainingValues, s \in EstResetValues}

EstInputs ==
  {Response(h, "body1") : h \in EstHeaders}
    \cup {StatusCodeError(Response(h, "tooManyRequests")) : h \in EstHeaders}
    \cup {RequestError, TypeError}

EstInit ==
  /\ limit \in Limits
  /\ requestId = 0
  /\ pool = NewPool
  /\ pc = [c \in Calls |-> "idle"]
  /\ id = [c \in Calls |-> -1]
  /\ outcome = [c \in Calls |-> None]
  /\ result = [c \in Calls |-> None]
  /\ timer = [c \in Calls |-> None]
  /\ releases = [c \in Calls |-> 0]
  /\ order = <<>>
  /\ acquires = [c \in Calls |-> 0]
  /\ fnCalls = [c \in Calls |-> 0]
  /\ elapsed = [c \in Calls |-> 0]
  /\ est_res \in EstInputs
  /\ est_out = None
  /\ NoJob

Estimate ==
  /\ est_out = None
  /\ est_out' = timeToNextRequest(est_res)
  /\ UNCHANGED <<limit, requestId, pool, pc, id, outcome, result, timer,
                 releases, order, acquires, fnCalls, elapsed, est_res, jobVars>>

EstNext == Estimate

EstSpec == EstInit /\ [][EstNext]_vars


(***************************************************************************)
(* The claims.                                                             *)
(***************************************************************************)
\* the calls whose continuation after the transport call has run
Finished(c) == pc[c] \in {"scheduled", "released", "leaked"}
\* the calls that hold a slot: in the transport, settled, or cooling down
HoldingSlot ==
  {c \in Calls : pc[c] \in {"executing", "succeeded", "failed",
                              "scheduled", "leaked"}}
\* the callers suspended in pool.acquire()
Suspended == {c \in Calls : pc[c] = "waiting" /\ c \notin pool.held}

\* C1: in every reachable state the number of calls holding a slot
\* (executing in the transport, or finished and not yet released) is at
\* most the size of the pool.
C1_HeldAtMostPoolSize == Cardinality(HoldingSlot) <= limit

\* all slots are taken, one of them by a call that is cooling down, and a
\* further caller is suspended
C1_Witness ==
  /\ Cardinality(HoldingSlot) = limit
  /\ \E c \in Calls : pc[c] = "scheduled"
  /\ Suspended # {}

\* C3: the k-th verb invocation gets the id that is exactly one more than
\* the id of the (k-1)-th, whatever became of the earlier calls.
C3_IdsConsecutive ==
  \A k \in 2..Len(order) : id[order[k]] = id[order[k - 1]] + 1

\* three invocations, one of which failed and one of which is suspended
C3_Witness ==
  /\ Len(order) >= 3
  /\ \E c \in Calls : pc[c] = "leaked"
  /\ Suspended # {}
  /\ id[order[3]] = id[order[1]] + 2

\* C10: when the transport call of an invocation succeeded, the invocation
\* returns the body of that response, whatever its headers contain.
C10_SuccessReturnsBody ==
  \A c \in Calls :
    (Finished(c) /\ outcome[c].type = "return")
      => /\ result[c].type = "return"
         /\ result[c].value = outcome[c].value.body

\* a call whose response carried none of the throttling headers returned
\* the body of that response
C10_Witness ==
  \E c \in Calls :
    /\ Finished(c)
    /\ outcome[c] = Return(Response(NoHeaders, "body2"))
    /\ result[c] = Return("body2")

\* the two shapes in which a set of headers reaches timeToNextRequest
Shapes(h) ==
  {Response(h, "body1"), StatusCodeError(Response(h, "tooManyRequests"))}

\* C4: a remaining count above the pool size plus 10 gives a delay of
\* exactly 0, whatever the date and reset headers are.
C4_AmpleRemainingGivesZero ==
  \A n \in EstRemaining, d \in EstDateValues, s \in EstResetValues :
    (/\ est_out # None
     /\ est_res \in Shapes(Headers(d, Dec(n), s))
     /\ n > limit + 10)
      => est_out = Return(Num(0))

\* the count just above the threshold, with no usable date or reset
C4_Witness ==
  /\ est_res = Response(Headers(Undefined, Dec(limit + 11), <<"x">>), "body1")
  /\ est_out = Return(Num(0))

\* C5: with a remaining count of at most the pool size plus 10, a date D
\* and a reset of R epoch seconds, the delay is R*1000 - parse(D) + 1000,
\* for a response and for an error that embeds the response alike.
C5_DelayIsResetMinusDatePlusBuffer ==
  \A n \in EstRemaining, t \in EstInstants, r \in EstReset :
    (/\ est_out # None
     /\ est_res \in Shapes(Headers(IsoDate(t[1], t[2], t[3]), Dec(n), Dec(r)))
     /\ n <= limit + 10)
      => est_out =
           Return(Num(r * 1000 - ((t[1] * 60 + t[2]) * 60 + t[3]) * 1000
                      + 1000))

\* the example of the specification: 5 requests left, the reset two seconds
\* after the date, a pool of 100, on an error: 3000 ms
C5_Witness ==
  /\ limit = 100
  /\ est_res = StatusCodeError(Response(LowHeaders, "tooManyRequests"))
  /\ est_out = Return(Num(3000))


\* the transport call of c has settled
Settled(c) == outcome[c] # None

\* C2: once the transport call of an invocation has settled, resolved or
\* thrown, a release of its slot eventually happens, and no second release
\* of it ever happens.
C2_EveryAcquireReleasedOnce ==
  \A c \in Calls :
    /\ [](Settled(c) => <>(releases[c] = 1))
    /\ [](releases[c] <= 1)

\* the transport call of c failed with an error that embeds no response
FailedWithoutResponse(c) ==
  /\ Settled(c)
  /\ outcome[c].type = "throw"
  /\ "response" \notin DOMAIN outcome[c].value

\* C6: when the transport fails with an error that has no embedded
\* response, the estimator does not crash: the release of the slot is
\* armed with a delay of 0.
C6_NoResponseGivesZeroDelay ==
  \A c \in Calls :
    (Finished(c) /\ FailedWithoutResponse(c))
      => /\ pc[c] \in {"scheduled", "released"}
         /\ timer[c] = Num(0)

\* C7: a successful response that lacks one of the three throttling
\* headers, or carries a malformed one, gets a release delay of 0.
C7_MissingHeaderGivesZero ==
  \A d \in EstDateValues, r \in EstRemainingValues, s \in EstResetValues :
    (/\ est_out # None
     /\ est_res = Response(Headers(d, r, s), "body1")
     /\ (d \in Absent \/ r \in Absent \/ s \in Absent))
      => est_out = Return(Num(0))

\* the reset time of the headers of c's outcome lies more than one second
\* before the server's date
ResetLongPast(c) ==
  LET h == HeadersOf(outcome[c].value) IN
  /\ h.type = "return"
  /\ LET reset == ToNumber(Prop(h.value, RESET))
         date == DateParse(Prop(h.value, DATE))
     IN /\ ~reset.nan /\ ~date.nan
        /\ reset.v * 1000 + 1000 < date.v

\* C8: the delay handed to the release timer is never negative; when the
\* reset time is more than one second in the past it is 0.
C8_DelayNeverNegative ==
  \A c \in Calls :
    timer[c] # None
      => /\ timer[c].nan \/ timer[c].v >= 0
         /\ ResetLongPast(c) => timer[c] = Num(0)

\* C9: when the transport call of an invocation fails, the invocation
\* fails with that very error, with or without an embedded response.
C9_ErrorRethrownUnchanged ==
  \A c \in Calls :
    (Finished(c) /\ outcome[c].type = "throw") => result[c] = outcome[c]


\* the release timer of c is armed with a delay above 0
Cooling(c) == timer[c] # None /\ ~timer[c].nan /\ timer[c].v > 0

\* C11: with a positive release delay the caller has its result (or the
\* error) while the slot of the call is still held and not yet released.
C11_ResultBeforeRelease ==
  \A c \in Calls :
    (Cooling(c) /\ elapsed[c] < timer[c].v)
      => /\ result[c] # None
         /\ c \in pool.held
         /\ releases[c] = 0

\* half of the cooldown of a failed call has passed: its caller has the
\* error, the slot is held
C11_Witness ==
  \E c \in Calls :
    /\ Cooling(c)
    /\ 0 < elapsed[c] /\ elapsed[c] < timer[c].v
    /\ result[c] = Throw(StatusCodeError(Response(LowHeaders, "tooManyRequests")))
    /\ c \in pool.held

\* C12: a slot with a release delay d > 0 is not returned before d ms have
\* passed since its timer was armed, and while all slots are executing or
\* cooling down no call starts executing.
C12_SlotHeldForCooldown ==
  [][ /\ \A c \in Calls :
           (Cooling(c) /\ (releases'[c] > releases[c]
                            \/ (c \in pool.held /\ c \notin pool'.held)))
             => elapsed[c] >= timer[c].v
      /\ Cardinality(HoldingSlot) = limit
           => \A c \in Calls : pc[c] = "waiting" => pc'[c] = "waiting"
    ]_vars

\* a pool of one slot: the first call cooled down for 3000 ms and was
\* released, and only then the second call reached the transport
C12_Witness ==
  /\ limit = 1
  /\ pc[1] = "released" /\ timer[1] = Num(3000) /\ elapsed[1] = 3000
  /\ fnCalls[2] = 1

\* C14: every invocation that waits for a slot is eventually admitted and
\* eventually completes, when all transport calls settle.
C14_EveryCallerAdmitted ==
  \A c \in Calls :
    /\ (pc[c] = "waiting") ~> (fnCalls[c] = 1)
    /\ (pc[c] = "waiting") ~> Finished(c)

\* C15: each verb invocation acquires exactly one slot and calls the
\* transport exactly once, whether the transport call succeeds or fails.
C15_NoRetry ==
  \A c \in Calls :
    /\ acquires[c] <= 1 /\ fnCalls[c] <= 1
    /\ Finished(c) => (acquires[c] = 1 /\ fnCalls[c] = 1)

\* a failed and a succeeded invocation, both finished
C15_Witness ==
  /\ \E c \in Calls :
       Finished(c) /\ outcome[c].type = "throw" /\ fnCalls[c] = 1
  /\ \E c \in Calls :
       Finished(c) /\ outcome[c].type = "return" /\ fnCalls[c] = 1

\* the states of the specification's state machine, numbered in its order;
\* CREATED is left within the run that assigns the id and calls acquire(),
\* and a call whose catch clause threw stays FAILED
StateRank(p) ==
  CASE p = "idle" -> 0
    [] p = "waiting" -> 1
    [] p = "executing" -> 2
    [] p \in {"succeeded", "failed", "leaked"} -> 3
    [] p = "scheduled" -> 4
    [] p = "released" -> 5

\* C17: every call passes through CREATED/WAITING_FOR_SLOT, EXECUTING,
\* SUCCEEDED or FAILED, RELEASE_SCHEDULED, RELEASED in this order only:
\* the transport is called only by a call that holds a slot, the timer is
\* armed only after the transport call settled, nothing is skipped or
\* revisited.
C17_StatesInOrder ==
  [][ \A c \in Calls :
        /\ \/ pc'[c] = pc[c]
           \/ StateRank(pc'[c]) = StateRank(pc[c]) + 1
           \/ pc[c] = "failed" /\ pc'[c] = "leaked"
        /\ fnCalls'[c] > fnCalls[c] => c \in pool.held
        /\ (timer[c] = None /\ timer'[c] # None) => Settled(c)
    ]_vars

\* one call went all the way to RELEASED, another one stopped at FAILED
C17_Witness ==
  /\ \E c \in Calls : pc[c] = "released" /\ releases[c] = 1
  /\ \E c \in Calls : pc[c] = "leaked"


(***************************************************************************)
(* The concurrency pool on its own: callers acquire handles and call       *)
(* release() on a handle they were given, also a second time.              *)
(***************************************************************************)
acquire(h) ==
  /\ pc[h] = "idle"
  /\ pool' = PoolAcquire(pool, h, limit)
  /\ acquires' = [acquires EXCEPT ![h] = @ + 1]
  /\ pc' = [pc EXCEPT ![h] = "waiting"]
  /\ UNCHANGED <<limit, requestId, id, outcome, result, timer, releases,
                 order, fnCalls, elapsed, est_res, est_out, jobVars>>

release(h) ==
  /\ pc[h] \in {"waiting", "released"}
  /\ h \in pool.held \/ releases[h] > 0
  /\ releases[h] < MaxReleases
  /\ pool' = PoolRelease(pool, h)
  /\ releases' = [releases EXCEPT ![h] = @ + 1]
  /\ pc' = [pc EXCEPT ![h] = "released"]
  /\ UNCHANGED <<limit, requestId, id, outcome, result, timer, acquires,
                 order, fnCalls, elapsed, est_res, est_out, jobVars>>

PoolNext == \E h \in Calls : acquire(h) \/ release(h)

PoolSpec == Init /\ [][PoolNext]_vars

\* the free slots of a pool of n slots
FreeSlots(p, n) == n - Cardinality(p.held)
\* the handles that were handed out and on which release() was not called
Unreleased ==
  {h \in Calls :
     /\ acquires[h] = 1 /\ releases[h] = 0
     /\ \A i \in 1..Len(pool.waiters) : pool.waiters[i] # h}

\* C16: after any sequence of acquire and release operations, repeated
\* releases of one handle included, the free-slot count stays within 0..N
\* and every handle not yet released still holds its slot.
C16_DoubleReleaseHarmless ==
  /\ FreeSlots(pool, limit) \in 0..limit
  /\ Unreleased \subseteq pool.held
  /\ Cardinality(pool.held) >= Cardinality(Unreleased)
  /\ \A h \in pool.held : releases[h] = 0

\* release() ran twice on one handle while the pool was full and a caller
\* was queued
C16_Witness ==
  /\ \E h \in Calls : releases[h] = 2
  /\ FreeSlots(pool, limit) = 0
  /\ pool.waiters # <<>>

(***************************************************************************)
(* pool.each(collection, operation) of util/concurrency-pool: the          *)
(* operation runs on every item, each invocation inside one slot of the    *)
(* pool, which is given back when the invocation settles either way.       *)
(***************************************************************************)
Item(special) == [special |-> special]

RECURSIVE PoolAcquireAll(_, _, _)
\* each() asks for one slot per item, in the order of the collection
PoolAcquireAll(p, n, size) ==
  IF n = 0 THEN p ELSE PoolAcquire(PoolAcquireAll(p, n - 1, size), n, size)

EachCalled(coll, size) ==
  /\ items' = coll
  /\ task' = [i \in 1..Len(coll) |-> "queued"]
  /\ attempts' = [i \in 1..Len(coll) |-> 0]
  /\ outer' = PoolAcquireAll(outer, Len(coll), size)

\* each() that gives up at the first rejected invocation
EachFinished_FailFast ==
  \/ \A i \in 1..Len(items) : task[i] \in {"done", "rejected"}
  \/ \E i \in 1..Len(items) : task[i] = "rejected"

\* every invocation has settled
EachFinished == \A i \in 1..Len(items) : task[i] \in {"done", "rejected"}

\* the invocations that have started and not settled
Outstanding == {i \in 1..Len(items) : task[i] \notin {"queued", "done", "rejected"}}

(***************************************************************************)
(* each() on its own, with an operation that resolves or rejects           *)
(***************************************************************************)
EachCollections == {[i \in 1..n |-> Item(FALSE)] : n \in 0..MaxEachItems}

EachInit ==
  /\ limit = REQUEST_CONCURRENCY_LIMIT
  /\ requestId = 0
  /\ pool = NewPool
  /\ pc = [c \in Calls |-> "idle"]
  /\ id = [c \in Calls |-> -1]
  /\ outcome = [c \in Calls |-> None]
  /\ result = [c \in Calls |-> None]
  /\ timer = [c \in Calls |-> None]
  /\ releases = [c \in Calls |-> 0]
  /\ order = <<>>
  /\ acquires = [c \in Calls |-> 0]
  /\ fnCalls = [c \in Calls |-> 0]
  /\ elapsed = [c \in Calls |-> 0]
  /\ est_res = None
  /\ est_out = None
  /\ concurrency \in 1..MaxConcurrency
  /\ pageLimit = MaxItems
  /\ job = [fn |-> "none", at |-> "idle"]
  /\ items = <<>>
  /\ task = <<>>
  /\ attempts = <<>>
  /\ outer = NewPool
  /\ rq = [o \in Owners |-> NoRequest]
  /\ cooling = {}
  /\ hist = <<>>

each(coll) ==
  /\ job.at = "idle"
  /\ job' = [fn |-> "each", at |-> "each"]
  /\ EachCalled(coll, concurrency)
  /\ UNCHANGED <<limit, pool, callVars, estVars, concurrency, pageLimit, rq,
                 cooling, hist>>

\* the invocation on item i starts once each() holds a slot for it
OpStart(i) ==
  /\ job.fn = "each"
  /\ task[i] = "queued"
  /\ i \in outer.held
  /\ task' = [task EXCEPT ![i] = "running"]
  /\ attempts' = [attempts EXCEPT ![i] = @ + 1]
  /\ UNCHANGED <<limit, pool, callVars, estVars, concurrency, pageLimit, job,
                 items, outer, rq, cooling, hist>>

OpSettle(i, how) ==
  /\ job.fn = "each"
  /\ task[i] = "running"
  /\ task' = [task EXCEPT ![i] = how]
  /\ outer' = PoolRelease(outer, i)
  /\ UNCHANGED <<limit, pool, callVars, estVars, concurrency, pageLimit, job,
                 items, attempts, rq, cooling, hist>>

OpResolve(i) == OpSettle(i, "done")
OpReject(i) == OpSettle(i, "rejected")

EachSettled ==
  /\ job = [fn |-> "each", at |-> "each"]
  /\ EachFinished
  /\ job' = [job EXCEPT !.at = "settled"]
  /\ UNCHANGED <<limit, pool, callVars, estVars, concurrency, pageLimit,
                 items, task, attempts, outer, rq, cooling, hist>>

EachNext ==
  \/ \E coll \in EachCollections : each(coll)
  \/ \E i \in 1..MaxEachItems :
       \/ i \in DOMAIN task /\ OpStart(i)
       \/ i \in DOMAIN task /\ OpResolve(i)
       \/ i \in DOMAIN task /\ OpReject(i)
  \/ EachSettled

EachSpec == EachInit /\ [][EachNext]_vars

\* C13: each() invokes the operation exactly once on every item, never has
\* more invocations outstanding than the pool has slots, and a rejected
\* invocation does not keep the operation from the other items.
C13_EachRunsEveryItemOnce ==
  /\ Cardinality(Outstanding) <= concurrency
  /\ \A i \in 1..Len(items) : attempts[i] <= 1
  /\ job.at = "settled" => \A i \in 1..Len(items) : attempts[i] = 1

\* each() settled after a first item that rejected and a later one that
\* resolved, on a collection longer than the pool
C13_Witness ==
  /\ job = [fn |-> "each", at |-> "settled"]
  /\ Len(items) > concurrency
  /\ task[1] = "rejected"
  /\ task[Len(items)] = "done"

(***************************************************************************)
(* bin/reset: reset() awaits nine functions in turn.  Each of them lists a *)
(* collection with rs.get and hands it to each() of a pool; the operation  *)
(* on an item makes its verb calls inside try/catch.  The calls go through *)
(* schedule and scheduler.pool; the ids of the calls and the lengths of    *)
(* the release delays are left out here, a timer that was armed fires at   *)
(* some later time.                                                        *)
(***************************************************************************)
USERS_PAGE_LIMIT == 200
PageLimits == {MaxItems, USERS_PAGE_LIMIT}

\* the functions reset() awaits, in its order
Fns ==
  << "deleteCustomSchema", "deleteGroups", "deleteUsers",
     "deleteDeprovisionedUsers", "deleteClients",
     "deleteAuthorizationServers", "deletePasswordPolicies", "deleteIdps",
     "deleteIdpKeys" >>
FnIndex(fn) == CHOOSE k \in 1..Len(Fns) : Fns[k] = fn

\* while (true) { ... if (users.length < 200) break; }
Loops(fn) == fn \in {"deleteUsers", "deleteDeprovisionedUsers"}
\* if (group.type === 'BUILT_IN') return;  if (policy.system) return;
Skips(fn, item) ==
  fn \in {"deleteGroups", "deletePasswordPolicies"} /\ item.special
\* const policyPool = new ConcurrencyPool(1); the other functions use pool
OuterSize(fn) == IF fn = "deletePasswordPolicies" THEN 1 ELSE concurrency
FirstRequest_DeleteAtOnce(fn) == "delete"

\* the first verb call of the operation on an item
FirstRequest(fn) == IF fn = "deleteUsers" THEN "deactivate" ELSE "delete"

\* the bodies a listing may have: at most pageLimit items
ListingLengths ==
  0..(IF pageLimit < MaxItems THEN pageLimit ELSE MaxItems)
Listings(fn) ==
  IF fn \in {"deleteGroups", "deletePasswordPolicies"}
  THEN UNION {[1..n -> {Item(TRUE), Item(FALSE)}] : n \in ListingLengths}
  ELSE {[i \in 1..n |-> Item(FALSE)] : n \in ListingLengths}
\* Object.keys(schema.definitions.custom.properties)
Schemas == {<<>>, <<"prop">>}

JobResponses(bodies) ==
  {Response(h, b) : h \in {AmpleHeaders, LowHeaders}, b \in bodies}
\* the completions of the transport promise of one verb call
JobOutcomes(bodies) ==
  {Return(res) : res \in JobResponses(bodies)} \cup {Throw(err) : err \in Errors}

\* what schedule makes of the completion of fn(): the completion its caller
\* gets and whether setTimeout(resource.release, ...) was reached
CatchOutcome(err) ==
  LET time == timeToNextRequest(err) IN
  IF time.type = "throw"
  THEN [result |-> time, armed |-> FALSE]
  ELSE [result |-> Throw(err), armed |-> TRUE]

TryOutcome(res) ==
  LET time == timeToNextRequest(res) IN
  IF time.type = "throw"
  THEN CatchOutcome(time.value)
  ELSE [result |-> Return(Body(res)), armed |-> TRUE]

ScheduleOutcome(out) ==
  IF out.type = "return" THEN TryOutcome(out.value)
  ELSE CatchOutcome(out.value)

\* The handle of a verb call is named after its caller while the call is in
\* flight.  Once the call has settled the handle is named after what became
\* of it: the k-th handle that waits for its release timer, or the k-th
\* handle for which no timer was armed.
CoolingHandle(k) == MaxItems + k
LeakedHandle(k) == 0 - k
Leaked(p) == {h \in p.held : h < 0}
Rename(p, h, g) == [p EXCEPT !.held = (@ \ {h}) \cup {g}]

\* owner o calls a verb on scheduler.pool in state p: schedule runs up to
\* await scheduler.pool.acquire()
RsCall(p, o) ==
  /\ rq' = [rq EXCEPT ![o] = [pc |-> "waiting", h |-> o]]
  /\ pool' = PoolAcquire(p, o, limit)

\* scheduler.pool after the verb call of owner o has settled with so: the
\* slot stays taken, until the timer fires if one was armed
AfterSettle(o, so) ==
  Rename(pool, rq[o].h,
         IF so.armed THEN CoolingHandle(Cardinality(cooling) + 1)
         ELSE LeakedHandle(Cardinality(Leaked(pool)) + 1))

Armed(o, so) ==
  cooling' = IF so.armed
             THEN cooling \cup {CoolingHandle(Cardinality(cooling) + 1)}
             ELSE cooling

\* the job is run with small pools in the place of the 100 slots, so that
\* the few items of a listing can fill scheduler.pool
JobLimits == 1..SmallLimit

JobInit ==
  /\ limit \in JobLimits
  /\ requestId = 0
  /\ pool = NewPool
  /\ pc = [c \in Calls |-> "idle"]
  /\ id = [c \in Calls |-> -1]
  /\ outcome = [c \in Calls |-> None]
  /\ result = [c \in Calls |-> None]
  /\ timer = [c \in Calls |-> None]
  /\ releases = [c \in Calls |-> 0]
  /\ order = <<>>
  /\ acquires = [c \in Calls |-> 0]
  /\ fnCalls = [c \in Calls |-> 0]
  /\ elapsed = [c \in Calls |-> 0]
  /\ est_res = None
  /\ est_out = None
  /\ concurrency \in 1..MaxConcurrency
  /\ pageLimit \in PageLimits
  /\ job = [fn |-> "none", at |-> "idle"]
  /\ items = <<>>
  /\ task = <<>>
  /\ attempts = <<>>
  /\ outer = NewPool
  /\ rq = [o \in Owners |-> NoRequest]
  /\ cooling = {}
  /\ hist = <<>>

\* the step of reset() after function fn has returned
NextStep(fn) ==
  IF FnIndex(fn) = Len(Fns) THEN [fn |-> fn, at |-> "done"]
  ELSE [fn |-> Fns[FnIndex(fn) + 1], at |-> "call"]

\* reset(): console.time, then the first function is entered
reset ==
  /\ job = [fn |-> "none", at |-> "idle"]
  /\ job' = [fn |-> Fns[1], at |-> "call"]
  /\ UNCHANGED <<limit, pool, callVars, estVars, concurrency, pageLimit,
                 items, task, attempts, outer, rq, cooling, hist>>

\* await rs.get(...): the listing of the function, or of the next round of
\* its loop, is asked for
rsGet ==
  /\ job.at = "call"
  /\ RsCall(pool, 0)
  /\ job' = [job EXCEPT !.at = "get"]
  /\ UNCHANGED <<limit, callVars, estVars, concurrency, pageLimit, items,
                 task, attempts, outer, cooling, hist>>

\* schedule: acquire() has resolved and fn() is called
RqExecute(o) ==
  /\ rq[o].pc = "waiting"
  /\ rq[o].h \in pool.held
  /\ rq' = [rq EXCEPT ![o].pc = "executing"]
  /\ UNCHANGED <<limit, pool, callVars, estVars, concurrency, pageLimit, job,
                 items, task, attempts, outer, cooling, hist>>

\* deleteCustomSchema: the schema arrives; without custom properties the
\* function returns, else it posts the emptied schema; a rejected get is
\* caught by reset()
SchemaFetched(out) ==
  /\ job = [fn |-> "deleteCustomSchema", at |-> "get"]
  /\ rq[0].pc = "executing"
  /\ LET so == ScheduleOutcome(out) IN
     /\ Armed(0, so)
     /\ IF so.result.type = "throw"
        THEN /\ job' = [job EXCEPT !.at = "done"]
             /\ rq' = [rq EXCEPT ![0] = NoRequest]
             /\ pool' = AfterSettle(0, so)
        ELSE IF Len(so.result.value) = 0
        THEN /\ job' = NextStep(job.fn)
             /\ rq' = [rq EXCEPT ![0] = NoRequest]
             /\ pool' = AfterSettle(0, so)
        ELSE /\ job' = [job EXCEPT !.at = "post"]
             /\ RsCall(AfterSettle(0, so), 0)
  /\ UNCHANGED <<limit, callVars, estVars, concurrency, pageLimit, items,
                 task, attempts, outer, hist>>

\* try { await rs.post(options) } catch (err) { logger.error(...) }
SchemaPosted(out) ==
  /\ job = [fn |-> "deleteCustomSchema", at |-> "post"]
  /\ rq[0].pc = "executing"
  /\ Armed(0, ScheduleOutcome(out))
  /\ pool' = AfterSettle(0, ScheduleOutcome(out))
  /\ rq' = [rq EXCEPT ![0] = NoRequest]
  /\ job' = NextStep(job.fn)
  /\ UNCHANGED <<limit, callVars, estVars, concurrency, pageLimit,
                 items, task, attempts, outer, hist>>

\* the listing arrives and is handed to each(); a rejected get leaves the
\* function and is caught by reset()
Listed(out) ==
  /\ job.at = "get"
  /\ job.fn # "deleteCustomSchema"
  /\ rq[0].pc = "executing"
  /\ rq' = [rq EXCEPT ![0] = NoRequest]
  /\ LET so == ScheduleOutcome(out) IN
     /\ Armed(0, so)
     /\ pool' = AfterSettle(0, so)
     /\ IF so.result.type = "throw"
        THEN /\ job' = [job EXCEPT !.at = "done"]
             /\ UNCHANGED <<items, task, attempts, outer, hist>>
        ELSE /\ job' = [job EXCEPT !.at = "each"]
             /\ EachCalled(so.result.value, OuterSize(job.fn))
             /\ hist' = [i \in 1..Len(so.result.value) |-> <<>>]
  /\ UNCHANGED <<limit, callVars, estVars, concurrency, pageLimit>>

\* the operation on item i is invoked: a skipped item returns at once, the
\* others make their first verb call
TaskStart(i) ==
  /\ job.at = "each"
  /\ job.fn # "each"
  /\ task[i] = "queued"
  /\ i \in outer.held
  /\ attempts' = [attempts EXCEPT ![i] = @ + 1]
  /\ IF Skips(job.fn, items[i])
     THEN /\ task' = [task EXCEPT ![i] = "done"]
          /\ outer' = PoolRelease(outer, i)
          /\ UNCHANGED <<pool, rq, hist>>
     ELSE /\ task' = [task EXCEPT ![i] = FirstRequest(job.fn)]
          /\ RsCall(pool, i)
          /\ hist' = [hist EXCEPT ![i] = Append(@, FirstRequest(job.fn))]
          /\ UNCHANGED outer
  /\ UNCHANGED <<limit, callVars, estVars, concurrency, pageLimit, job, items,
                 cooling>>

\* deleteUsers: await rs.post(.../lifecycle/deactivate) settles; resolved,
\* the operation goes on to rs.delete; rejected, it enters its catch clause
\* and returns
Deactivated(i, out) ==
  /\ job.at = "each"
  /\ task[i] = "deactivate"
  /\ rq[i].pc = "executing"
  /\ LET so == ScheduleOutcome(out) IN
     /\ Armed(i, so)
     /\ IF so.result.type = "return"
        THEN /\ task' = [task EXCEPT ![i] = "delete"]
             /\ RsCall(AfterSettle(i, so), i)
             /\ hist' = [hist EXCEPT ![i] = @ \o <<"deactivated", "delete">>]
             /\ UNCHANGED outer
        ELSE /\ task' = [task EXCEPT ![i] = "done"]
             /\ rq' = [rq EXCEPT ![i] = NoRequest]
             /\ hist' = [hist EXCEPT ![i] = Append(@, "deactivateFailed")]
             /\ outer' = PoolRelease(outer, i)
             /\ pool' = AfterSettle(i, so)
  /\ UNCHANGED <<limit, callVars, estVars, concurrency, pageLimit, job, items,
                 attempts>>

\* await rs.delete(...) settles: the operation logs the outcome and returns
Deleted(i, out) ==
  /\ job.at = "each"
  /\ task[i] = "delete"
  /\ rq[i].pc = "executing"
  /\ LET so == ScheduleOutcome(out) IN
     /\ Armed(i, so)
     /\ pool' = AfterSettle(i, so)
     /\ hist' = [hist EXCEPT ![i] =
                   Append(@, IF so.result.type = "return" THEN "deleted"
                             ELSE "deleteFailed")]
  /\ task' = [task EXCEPT ![i] = "done"]
  /\ rq' = [rq EXCEPT ![i] = NoRequest]
  /\ outer' = PoolRelease(outer, i)
  /\ UNCHANGED <<limit, callVars, estVars, concurrency, pageLimit, job,
                 items, attempts>>

\* a timer of setTimeout(resource.release, ...) fires; the pool cannot tell
\* the waiting handles apart, so the last one is taken
RqRelease ==
  /\ cooling # {}
  /\ pool' = PoolRelease(pool, CoolingHandle(Cardinality(cooling)))
  /\ cooling' = cooling \ {CoolingHandle(Cardinality(cooling))}
  /\ UNCHANGED <<limit, callVars, estVars, concurrency, pageLimit, job, items,
                 task, attempts, outer, rq, hist>>

\* each() has settled: a loop goes round again after a full page, any other
\* function returns to reset()
EachDone ==
  /\ job.at = "each"
  /\ job.fn # "each"
  /\ EachFinished
  /\ job' = IF Loops(job.fn) /\ ~(Len(items) < pageLimit)
            THEN [job EXCEPT !.at = "call"]
            ELSE NextStep(job.fn)
  /\ items' = <<>>
  /\ task' = <<>>
  /\ attempts' = <<>>
  /\ hist' = <<>>
  /\ UNCHANGED <<limit, pool, callVars, estVars, concurrency, pageLimit,
                 outer, rq, cooling>>

JobNext ==
  \/ reset
  \/ rsGet
  \/ \E o \in Owners : RqExecute(o)
  \/ \E out \in JobOutcomes(Schemas) : SchemaFetched(out)
  \/ \E out \in JobOutcomes({<<>>}) : SchemaPosted(out)
  \/ \E out \in JobOutcomes(Listings(job.fn)) : Listed(out)
  \/ \E i \in DOMAIN task : TaskStart(i)
  \/ \E i \in DOMAIN task, out \in JobOutcomes({<<>>}) : Deactivated(i, out)
  \/ \E i \in DOMAIN task, out \in JobOutcomes({<<>>}) : Deleted(i, out)
  \/ RqRelease
  \/ EachDone

JobSpec == JobInit /\ [][JobNext]_vars

\* every continuation that can run does, every transport call settles and
\* every armed timer fires
FairJobSpec ==
  /\ JobSpec
  /\ WF_vars(reset)
  /\ WF_vars(rsGet)
  /\ \A o \in Owners : WF_vars(RqExecute(o))
  /\ WF_vars(\E out \in JobOutcomes(Schemas) : SchemaFetched(out))
  /\ WF_vars(\E out \in JobOutcomes({<<>>}) : SchemaPosted(out))
  /\ WF_vars(\E out \in JobOutcomes(Listings(job.fn)) : Listed(out))
  /\ \A i \in 1..MaxItems :
       /\ WF_vars(i \in DOMAIN task /\ TaskStart(i))
       /\ WF_vars(\E out \in JobOutcomes({<<>>}) :
                    i \in DOMAIN task /\ Deactivated(i, out))
       /\ WF_vars(\E out \in JobOutcomes({<<>>}) :
                    i \in DOMAIN task /\ Deleted(i, out))
  /\ WF_vars(RqRelease)
  /\ WF_vars(EachDone)

JobTypeOK ==
  /\ cooling \subseteq pool.held
  /\ \A o \in Owners : rq[o].pc = "executing" => rq[o].h \in pool.held \ cooling
  /\ Cardinality(pool.held) <= limit

\* the requests the operation of deleteUsers may make for one user, with
\* their outcomes, in order
UserHistories ==
  { <<"deactivate", "deactivateFailed">>,
    <<"deactivate", "deactivated", "delete", "deleted">>,
    <<"deactivate", "deactivated", "delete", "deleteFailed">> }
IsPrefix(s, t) == Len(s) <= Len(t) /\ \A k \in 1..Len(s) : s[k] = t[k]

C18_NestedPoolsAdmit ==
  \A i \in 1..MaxItems :
    (i \in outer.held /\ rq[i].pc = "waiting") ~> (rq[i].pc # "waiting")

\* C19: reset() reaches its final 'Done' step, given that every request
\* settles (FairJobSpec).
C19_ResetTerminates == <>(job.at = "done")

====
